---- MODULE Spec2Model ----
(***************************************************************************)
(* Model of raclients' ModelClientBase (src/raclients/modelclientbase.py)  *)
(* and of the MO ModelClient built on it (src/raclients/mo/modelclient.py).*)
(*                                                                         *)
(* One asyncio event loop runs the coroutines; every action below is the   *)
(* code a coroutine executes between two suspension points.                *)
(***************************************************************************)
EXTENDS Naturals, Integers, Sequences, FiniteSets, TLC

\* ---------------------------------------------------------------- bounds
\* Number of callers that may be inside `async with client.context()`.
MaxScopes == 2
\* Longest input handed to _submit_payloads.
MaxObjs == 3
\* Largest chunk_size the client is constructed with.
MaxChunkSize == 2
\* __check_if_server_online(attempts=100): the number of GETs per endpoint,
\* bounded here for checking.
Attempts == 2
\* Number of POSTs the backend lets fail where a specification limits it.
MaxFaults == 1

\* ------------------------------------------------------ program constants
\* @retry(stop=stop_after_attempt(7))
StopAfterAttempt == 7
\* @retry(wait=wait_exponential(multiplier=2, min=1))
WaitMultiplier == 2
WaitMin == 1

\* self._session: Optional[ClientSession] = None; session ids count from 1.
None == 0

\* ModelClient.__mo_path_map: the types the MO client can upload.
mo_path_map ==
    [t \in {"OrganisationUnit", "Employee", "Engagement",
            "EngagementAssociation", "Manager", "Address"} |->
        IF t = "OrganisationUnit" THEN "/service/ou/create"
        ELSE IF t = "Employee" THEN "/service/e/create"
        ELSE "/service/details/create"]

\* Faulty variant: a type without an entry gets a default route.
get_path_map_default ==
    [t \in DOMAIN mo_path_map \cup {"ITUser"} |->
        IF t \in DOMAIN mo_path_map THEN mo_path_map[t]
        ELSE "/service/details/create"]

\* ModelClient._get_path_map
get_path_map == mo_path_map

\* ModelClient._get_healthcheck_tuples: [("/version/", "mo_version")]
get_healthcheck_tuples == {<<"/version/", "mo_version">>}

\* The runtime classes of the objects callers hand in: two mapped classes,
\* one MOBase class that __mo_path_map has no entry for, a subclass of
\* Employee whose __name__ is "Employee" too, and an unrelated class of
\* that name.
ObjTypes == {"Employee", "OrganisationUnit", "ITUser", "Employee_sub",
             "Employee_other"}

\* type(x).__name__
type_name(cls) ==
    IF cls \in {"Employee_sub", "Employee_other"} THEN "Employee" ELSE cls

\* isinstance(x, T) for an object x of class cls
isinstance(cls, T) == cls = T \/ (cls = "Employee_sub" /\ T = "Employee")

\* What the backend can do with one POST.
\*   ok          2xx with a JSON body
\*   neterr      the request raises (connection reset, timeout, ...)
\*   not_json    any status with a body that is not JSON
\*   http_desc   4xx/5xx whose JSON body has a "description" field
\*   http_plain  4xx/5xx whose JSON body is an object without that field
\*   http_null   4xx/5xx whose JSON body is no container (null, a number)
Outcomes == {"ok", "neterr", "not_json", "http_desc", "http_plain",
             "http_null"}
ErrorStatuses == {422, 500}
Description == "invalid uuid"

VARIABLES
    session,      \* self._session: None or the id of a session
    sessions,     \* sessions the factory has made: id -> "open" | "closed"
    probed,       \* ids of the sessions whose health probe succeeded
    scopes,       \* callers of context(): id -> their position in it
    gets,         \* health GETs issued: session id -> endpoint -> count
    verified,     \* outcome of the last direct _verify_session() call
    pc,           \* _submit_payloads: "idle", "draining", "returned", "raised"
    objs,         \* its materialised input: a sequence of runtime types
    chunk_size,   \* self._chunk_size
    tasks,        \* the _submit_chunk coroutines, in the order they were made
    group,        \* index of the group whose tasks as_completed is draining
    done_q,       \* tasks of that group in the order they completed
    results,      \* the aggregate result list
    raised,       \* the exception _submit_payloads raised, or None
    one,          \* _post_single_to_backend per object: its state, the
                  \* attempts made, the POSTs sent, the attempts that ended
                  \* in a network error, the last answer, the backoff
                  \* delays slept and the value returned or raised
    post_log,     \* which object was POSTed on which session, and whether
                  \* that session's health probe had succeeded by then
    force,        \* self.force of the client
    resolved      \* the last get_object_url call: its arguments and result

sessionVars == <<session, sessions, probed, scopes, gets>>
batchVars == <<pc, objs, chunk_size, tasks, group, done_q, results, raised,
               one, post_log>>
vars == <<session, sessions, probed, scopes, gets, verified, pc, objs,
          chunk_size, tasks, group, done_q, results, raised, one, post_log,
          force, resolved>>

Scopes == 1..MaxScopes
Endpoints == get_healthcheck_tuples

\* ------------------------------------------------------------- helpers
Max(a, b) == IF a >= b THEN a ELSE b

RECURSIVE Pow2(_)
Pow2(n) == IF n = 0 THEN 1 ELSE 2 * Pow2(n - 1)

Range(s) == {s[i] : i \in DOMAIN s}

\* ------------------------------------------------------------ exceptions
NoValue == [kind |-> "none"]

\* raise Exception("Need to initialize client session!")
NotInitialized ==
    [kind |-> "Exception", message |-> "Need to initialize client session!"]

\* raise TypeError(f"unknown type: {current_type}")
UnknownType(t) == [kind |-> "TypeError", message |-> t]

\* assert all([isinstance(obj, current_type) for obj in data])
AssertionFailed == [kind |-> "AssertionError", message |-> ""]

\* what session.post / response.json raise when the request itself fails
ClientConnectionError == [kind |-> "ClientConnectionError", message |-> ""]

\* response.raise_for_status(): ClientResponseError(status, message=reason)
ClientResponseError(status, message) ==
    [kind |-> "ClientResponseError", status |-> status, message |-> message]

Reason(status) == IF status = 422 THEN "Unprocessable Entity"
                  ELSE "Internal Server Error"

\* tenacity: raise RetryError(last_attempt) once the stop condition holds
RetryError(last) == [kind |-> "RetryError", last_attempt |-> last]

\* the decoded JSON body the backend answers the POST of object i with
Response(i) == [kind |-> "response", obj |-> i]

\* --------------------------------------------------- ModelClientBase
\* Faulty variant: no check for None: whatever the handle holds is returned.
verify_session_unchecked(handle) ==
    [ok |-> TRUE, value |-> handle, exc |-> NoValue]

\* _verify_session: the handle, or an exception when it is None.
verify_session(handle) ==
    IF handle = None
    THEN [ok |-> FALSE, value |-> None, exc |-> NotInitialized]
    ELSE [ok |-> TRUE, value |-> handle, exc |-> NoValue]

\* itertools.groupby(objs, lambda x: type(x).__name__): a new group starts
\* wherever the key differs from the key of the element before it.
RECURSIVE groupby_acc(_, _, _)
groupby_acc(ts, i, acc) ==
    IF i > Len(ts) THEN acc
    ELSE IF acc # <<>> /\ acc[Len(acc)].type_name = type_name(ts[i])
         THEN groupby_acc(ts, i + 1,
                [acc EXCEPT ![Len(acc)].members = Append(@, i)])
         ELSE groupby_acc(ts, i + 1,
                Append(acc, [type_name |-> type_name(ts[i]),
                             members |-> <<i>>]))

groupby(ts) == groupby_acc(ts, 1, <<>>)

\* Faulty variant: the items left over after the last full chunk are dropped.
RECURSIVE chunked_drop_rest(_, _)
chunked_drop_rest(s, n) ==
    IF Len(s) < n THEN <<>>
    ELSE <<SubSeq(s, 1, n)>> \o chunked_drop_rest(SubSeq(s, n + 1, Len(s)), n)

\* Faulty variant: every chunk takes one item more than chunk_size.
RECURSIVE chunked_too_long(_, _)
chunked_too_long(s, n) ==
    IF s = <<>> THEN <<>>
    ELSE IF Len(s) <= n + 1 THEN <<s>>
    ELSE <<SubSeq(s, 1, n + 1)>>
         \o chunked_too_long(SubSeq(s, n + 2, Len(s)), n)

\* more_itertools.chunked(iterable, n): lists of n items, the last one
\* holding what is left.
RECURSIVE chunked(_, _)
chunked(s, n) ==
    IF s = <<>> THEN <<>>
    ELSE IF Len(s) <= n THEN <<s>>
    ELSE <<SubSeq(s, 1, n)>> \o chunked(SubSeq(s, n + 1, Len(s)), n)

\* chunked_groups / chunked_tasks of _submit_payloads, flattened: one
\* _submit_chunk coroutine per chunk, in the order the coroutines are made.
RECURSIVE chunked_tasks_from(_, _, _)
chunked_tasks_from(groups, g, n) ==
    IF g > Len(groups) THEN <<>>
    ELSE LET chunks == chunked(groups[g].members, n)
         IN [k \in 1..Len(chunks) |->
                [group |-> g, type_name |-> groups[g].type_name,
                 data |-> chunks[k], st |-> "created", awaited |-> FALSE,
                 result |-> <<>>, exc |-> NoValue]]
            \o chunked_tasks_from(groups, g + 1, n)

chunked_tasks(ts, n) == chunked_tasks_from(groupby(ts), 1, n)

\* as_completed(tasks): every coroutine of group g becomes a scheduled task.
as_completed(ts, g) ==
    [t \in DOMAIN ts |->
        IF ts[t].group = g THEN [ts[t] EXCEPT !.st = "scheduled"] ELSE ts[t]]

\* ------------------------------------------------------- MO ModelClient
\* Faulty variant: the delay grows by the multiplier, not by doubling.
wait_exponential_linear(n) == Max(WaitMin, WaitMultiplier * n)

\* wait_exponential(multiplier=2, min=1) after attempt number n:
\* max(min, multiplier * 2 ** (n - 1)), with no upper limit that matters.
wait_exponential(n) == Max(WaitMin, WaitMultiplier * Pow2(n - 1))

\* response.json() on a body that is not JSON
InvalidJSON == [kind |-> "ValueError", message |-> ""]

\* `"description" in resp` on a body that is no container
NotIterable == [kind |-> "TypeError", message |-> "not iterable"]

\* An attempt of _post_single_to_backend that found no session: nothing is
\* POSTed, the exception of _verify_session is the attempt's result.
no_session(exc) ==
    [posted |-> FALSE, answer |-> "nosession", ok |-> FALSE, value |-> exc]

\* An attempt of _post_single_to_backend for object i from the answer to
\* its POST on: the body is read as JSON first, then raise_for_status(),
\* and `"description" in resp` decides the message of the
\* ClientResponseError. Gives what came back and the attempt's return
\* value or exception.
post_attempt(i, outcome, status) ==
    IF outcome = "ok"
    THEN [posted |-> TRUE, answer |-> outcome, ok |-> TRUE,
          value |-> Response(i)]
    ELSE IF outcome = "neterr"
    THEN [posted |-> TRUE, answer |-> outcome, ok |-> FALSE,
          value |-> ClientConnectionError]
    ELSE IF outcome = "not_json"
    THEN [posted |-> TRUE, answer |-> outcome, ok |-> FALSE,
          value |-> InvalidJSON]
    ELSE IF outcome = "http_desc"
    THEN [posted |-> TRUE, answer |-> outcome, ok |-> FALSE,
          value |-> ClientResponseError(status, Description)]
    ELSE IF outcome = "http_null"
    THEN [posted |-> TRUE, answer |-> outcome, ok |-> FALSE,
          value |-> NotIterable]
    ELSE [posted |-> TRUE, answer |-> outcome, ok |-> FALSE,
          value |-> ClientResponseError(status, Reason(status))]

\* Faulty variant: the stop condition is off by one: an eighth attempt is made.
retry_one_more(n, res) ==
    IF res.ok THEN "return"
    ELSE IF n > StopAfterAttempt THEN "raise"
    ELSE "retry"

\* @retry: what the decorator does with the result of attempt number n.
\*   "return"  hand the value to the caller
\*   "retry"   sleep wait_exponential(n), then attempt again
\*   "raise"   raise RetryError(last attempt)
retry(n, res) ==
    IF res.ok THEN "return"
    ELSE IF n >= StopAfterAttempt THEN "raise"
    ELSE "retry"

\* ---------------------------------------------------------------- Init
\* The client right after __init__: no session, nothing submitted.
InitClient(n, f) ==
    /\ session = None
    /\ sessions = <<>>
    /\ probed = {}
    /\ scopes = [c \in Scopes |->
                    [pc |-> "idle", sid |-> None, tries |-> [e \in Endpoints |-> 0],
                     online |-> {}, waiting |-> {}, how |-> "none"]]
    /\ gets = <<>>
    /\ verified = NoValue
    /\ pc = "idle"
    /\ objs = <<>>
    /\ chunk_size = n
    /\ tasks = <<>>
    /\ group = 0
    /\ done_q = <<>>
    /\ results = <<>>
    /\ raised = NoValue
    /\ one = <<>>
    /\ post_log = {}
    /\ force = f
    /\ resolved = NoValue

InitWith(n) == InitClient(n, FALSE)

Init == \E n \in 1..MaxChunkSize : InitWith(n)

\* ------------------------------------------------------------- context()
\* What leaving the `async with` block and the `finally` clause do for the
\* scope that owns session sid: the session is closed, the handle cleared.
close_session(ss, sid) == [ss EXCEPT ![sid] = "closed"]

\* Faulty variant: the `finally` clause is missing: the handle stays as it was.
clear_handle_missing(handle) == handle

clear_handle(handle) == None

\* `async with self._session_factory() as session: self._session = session`
\* and __check_if_server_online up to its gather, which suspends before any
\* check_endpoint task has run.
context_enter(c) ==
    /\ scopes[c].pc = "idle"
    /\ LET sid == Len(sessions) + 1 IN
        /\ sessions' = Append(sessions, "open")
        /\ session' = sid
        /\ gets' = Append(gets, [e \in Endpoints |-> 0])
        /\ scopes' = [scopes EXCEPT ![c].pc = "probing", ![c].sid = sid]
    /\ UNCHANGED <<probed, verified, force, resolved>>
    /\ UNCHANGED batchVars

\* Faulty variant: the loop runs once more than `attempts`.
range_attempts_one_more(n) == n <= Attempts

\* `for _ in range(attempts)`: after n rounds, is there another one?
range_attempts(n) == n < Attempts

\* check_endpoint(url, response) for endpoint e at the head of its loop,
\* when the task starts or when sleep(delay) is over: another round sends
\* a GET on the scope's session and suspends; when `attempts` rounds are
\* used up it raises "Unable to connect", which leaves the `async with`
\* (closing the session) and runs the `finally`.
\* (gather passes the first exception on at once; with the single endpoint
\* of the MO client no sibling check is left running behind it.)
check_endpoint(c, e) ==
    LET sc == scopes[c]
        sid == sc.sid
    IN
    /\ sc.pc = "probing"
    /\ e \notin sc.online
    /\ e \notin sc.waiting
    /\ IF range_attempts(sc.tries[e])
       THEN /\ gets' = [gets EXCEPT ![sid][e] = @ + 1]
            /\ scopes' = [scopes EXCEPT ![c].waiting = @ \cup {e}]
            /\ UNCHANGED <<session, sessions>>
       ELSE /\ scopes' = [scopes EXCEPT ![c].pc = "exited",
                                        ![c].how = "probe_failed"]
            /\ sessions' = close_session(sessions, sid)
            /\ session' = clear_handle(session)
            /\ UNCHANGED gets
    /\ UNCHANGED <<probed, verified, force, resolved>>
    /\ UNCHANGED batchVars

\* The GET of check_endpoint for endpoint e is answered: with the marker
\* the check returns, and when it was the last one the probe of the
\* session has succeeded; anything else (an error status, a body without
\* the marker, a network error) is printed, counts as a round and starts
\* sleep(delay).
check_endpoint_answer(c, e, marker) ==
    LET sc == scopes[c] IN
    /\ sc.pc = "probing"
    /\ e \in sc.waiting
    /\ IF marker
       THEN /\ scopes' = [scopes EXCEPT ![c].online = @ \cup {e},
                                        ![c].waiting = @ \ {e}]
            /\ probed' = IF sc.online \cup {e} = Endpoints
                         THEN probed \cup {sc.sid} ELSE probed
       ELSE /\ scopes' = [scopes EXCEPT ![c].tries[e] = @ + 1,
                                        ![c].waiting = @ \ {e}]
            /\ UNCHANGED probed
    /\ UNCHANGED <<session, sessions, gets, verified, force, resolved>>
    /\ UNCHANGED batchVars

\* The gather of __check_if_server_online is done, context() resumes and
\* yields: the body of the `async with client.context()` block starts.
context_yield(c) ==
    /\ scopes[c].pc = "probing"
    /\ scopes[c].online = Endpoints
    /\ scopes' = [scopes EXCEPT ![c].pc = "body"]
    /\ UNCHANGED <<session, sessions, probed, gets, verified, force,
                   resolved>>
    /\ UNCHANGED batchVars

\* The body of the `async with client.context()` block ends, normally or
\* with an exception: the session is closed, `finally` clears the handle.
context_exit(c, how) ==
    /\ scopes[c].pc = "body"
    /\ scopes' = [scopes EXCEPT ![c].pc = "exited", ![c].how = how]
    /\ sessions' = close_session(sessions, scopes[c].sid)
    /\ session' = clear_handle(session)
    /\ UNCHANGED <<probed, gets, verified, force, resolved>>
    /\ UNCHANGED batchVars

\* A direct call of _verify_session().
call_verify_session ==
    /\ verified' = verify_session(session)
    /\ UNCHANGED <<force, resolved>>
    /\ UNCHANGED sessionVars
    /\ UNCHANGED batchVars

\* ------------------------------------------------------ _submit_payloads
\* Faulty variant: the early return is missing.
no_tasks_unchecked(cts) == FALSE

\* `if not chunked_tasks or all([not tasks for _, tasks in chunked_tasks])`
no_tasks(cts) ==
    cts = <<>> \/ \A t \in DOMAIN cts : cts[t].data = <<>>

\* Lines 141-154: group, chunk, make the coroutines; nothing to do returns
\* []; otherwise as_completed schedules the tasks of the first group.
submit_payloads(input) ==
    /\ pc = "idle"
    /\ objs' = input
    /\ LET cts == chunked_tasks(input, chunk_size) IN
        IF no_tasks(cts)
        THEN /\ pc' = "returned"
             /\ tasks' = cts
             /\ group' = 0
        ELSE /\ pc' = "draining"
             /\ tasks' = as_completed(cts, 1)
             /\ group' = 1
    /\ one' = [i \in 1..Len(input) |->
                 [st |-> "none", attempt |-> 0, posts |-> 0, neterrs |-> 0,
                  last |-> "none", waits |-> <<>>, out |-> NoValue,
                  rank |-> 0]]
    /\ UNCHANGED <<chunk_size, done_q, results, raised, post_log, verified,
                   force, resolved>>
    /\ UNCHANGED sessionVars

\* A task finished with an exception.
task_failed(ts, t, exc) == [ts EXCEPT ![t].st = "failed", ![t].exc = exc]

\* _submit_chunk up to the gather in _post_to_backend: the type checks,
\* the path-map lookup, _verify_session, then one _post_single_to_backend
\* task per object of the chunk.
submit_chunk(t) ==
    LET data == tasks[t].data
        current_type == objs[data[1]]
        v == verify_session(session)
    IN
    /\ t \in DOMAIN tasks
    /\ tasks[t].st = "scheduled"
    /\ IF \E k \in DOMAIN data : ~isinstance(objs[data[k]], current_type)
       THEN /\ tasks' = task_failed(tasks, t, AssertionFailed)
            /\ done_q' = Append(done_q, t)
            /\ UNCHANGED one
       ELSE IF current_type \notin DOMAIN get_path_map
       THEN /\ tasks' = task_failed(tasks, t, UnknownType(current_type))
            /\ done_q' = Append(done_q, t)
            /\ UNCHANGED one
       ELSE IF ~v.ok
       THEN /\ tasks' = task_failed(tasks, t, v.exc)
            /\ done_q' = Append(done_q, t)
            /\ UNCHANGED one
       ELSE /\ tasks' = [tasks EXCEPT ![t].st = "running"]
            /\ one' = [i \in DOMAIN one |->
                         IF i \in Range(data)
                         THEN [one[i] EXCEPT !.st = "ready"] ELSE one[i]]
            /\ UNCHANGED done_q
    /\ UNCHANGED <<pc, objs, chunk_size, group, results, raised, post_log,
                   verified, force, resolved>>
    /\ UNCHANGED sessionVars

\* The task that object i belongs to.
task_of(i) == CHOOSE t \in DOMAIN tasks : i \in Range(tasks[t].data)

\* The submissions of task t that have raised, and the first of them.
Failed(ts, t, o) == {i \in Range(ts[t].data) : o[i].st = "failed"}
FirstFailed(ts, t, o) ==
    CHOOSE i \in Failed(ts, t, o) :
        \A j \in Failed(ts, t, o) : o[i].rank <= o[j].rank

\* Faulty variant: gather(..., return_exceptions=True): a failed submission
\* counts as finished and its exception is handed back as a result.
gather_return_exceptions(ts, t, o) ==
    IF \A k \in DOMAIN ts[t].data :
            o[ts[t].data[k]].st \in {"done", "failed"}
    THEN [ts EXCEPT ![t].st = "done",
                    ![t].result = [k \in DOMAIN ts[t].data |->
                                      o[ts[t].data[k]].out]]
    ELSE ts

\* Faulty variant: the task goes on as soon as one submission returned
\* (wait(..., return_when=FIRST_COMPLETED)) instead of waiting for all.
gather_first_completed(ts, t, o) ==
    IF Failed(ts, t, o) # {}
    THEN task_failed(ts, t, o[FirstFailed(ts, t, o)].out)
    ELSE IF \E i \in Range(ts[t].data) : o[i].st = "done"
    THEN LET i == CHOOSE i \in Range(ts[t].data) : o[i].st = "done"
         IN [ts EXCEPT ![t].st = "done", ![t].result = <<o[i].out>>]
    ELSE ts

\* Faulty variant: the values are handed back in the order in which the
\* submissions completed, not in the order of the chunk.
gather_completion_order(ts, t, o) ==
    IF Failed(ts, t, o) # {}
    THEN task_failed(ts, t, o[FirstFailed(ts, t, o)].out)
    ELSE IF \A k \in DOMAIN ts[t].data : o[ts[t].data[k]].st = "done"
    THEN LET members == Range(ts[t].data)
             nth(k) == CHOOSE j \in members :
                          Cardinality({m \in members :
                                          o[m].rank <= o[j].rank}) = k
         IN [ts EXCEPT ![t].st = "done",
                       ![t].result = [k \in DOMAIN ts[t].data |->
                                         o[nth(k)].out]]
    ELSE ts

\* gather(*map(_post_single_to_backend, data)) as task t finds it when the
\* submissions are in state `o`: the first exception raised ends the task,
\* and when every submission has returned the task returns their values
\* in the order of the chunk; otherwise the task keeps waiting.
gather(ts, t, o) ==
    IF Failed(ts, t, o) # {}
    THEN task_failed(ts, t, o[FirstFailed(ts, t, o)].out)
    ELSE IF \A k \in DOMAIN ts[t].data : o[ts[t].data[k]].st = "done"
    THEN [ts EXCEPT ![t].st = "done",
                    ![t].result = [k \in DOMAIN ts[t].data |->
                                      o[ts[t].data[k]].out]]
    ELSE ts

\* The chunk task t resumes from `await gather(...)` in _post_to_backend:
\* _submit_chunk returns the list or raises, and as_completed hands the
\* finished task on.
post_to_backend(t) ==
    /\ t \in DOMAIN tasks
    /\ tasks[t].st = "running"
    /\ tasks' = gather(tasks, t, one)
    /\ tasks' # tasks
    /\ done_q' = Append(done_q, t)
    /\ UNCHANGED <<pc, objs, chunk_size, group, results, raised, one,
                   post_log, verified, force, resolved>>
    /\ UNCHANGED sessionVars

\* Attempt number n of _post_single_to_backend for object i has ended with
\* `res`: what tenacity makes of it (return, sleep and go on, or raise
\* RetryError).
attempt_ended(i, n, res) ==
    LET decision == retry(n, res)
        nxt == [one EXCEPT
                  ![i].attempt = n,
                  ![i].neterrs = IF res.answer = "neterr" THEN @ + 1 ELSE @,
                  ![i].last = res.answer,
                  ![i].st = IF decision = "return" THEN "done"
                            ELSE IF decision = "raise" THEN "failed"
                            ELSE "ready",
                  ![i].waits = IF decision = "retry"
                               THEN Append(@, wait_exponential(n)) ELSE @,
                  ![i].out = IF decision = "return" THEN res.value
                             ELSE IF decision = "raise"
                             THEN RetryError(res.value) ELSE @,
                  ![i].rank = IF decision \in {"return", "raise"}
                              THEN Cardinality({j \in DOMAIN one :
                                     one[j].st \in {"done", "failed"}}) + 1
                              ELSE @]
    IN
    /\ one' = nxt
    /\ UNCHANGED <<tasks, done_q>>

\* The retried _post_single_to_backend for object i starts an attempt, at
\* the first call or when tenacity's sleep is over: _verify_session, then
\* the POST is sent on the session the handle holds and the attempt
\* suspends; without a session the attempt ends at once with the
\* exception of _verify_session.
post_single_to_backend(i) ==
    /\ i \in DOMAIN one
    /\ one[i].st = "ready"
    /\ LET n == one[i].attempt + 1
           v == verify_session(session)
       IN
        IF v.ok
        THEN /\ one' = [one EXCEPT ![i].attempt = n,
                                   ![i].posts = @ + 1,
                                   ![i].st = "posted"]
             /\ post_log' = post_log \cup
                               {[obj |-> i, sid |-> v.value,
                                 validated |-> v.value \in probed]}
             /\ UNCHANGED <<tasks, done_q>>
        ELSE /\ attempt_ended(i, n, no_session(v.exc))
             /\ UNCHANGED post_log
    /\ UNCHANGED <<pc, objs, chunk_size, group, results, raised, verified,
                   force, resolved>>
    /\ UNCHANGED sessionVars

\* The POST of object i is answered (or fails on the network): the rest of
\* the attempt and tenacity's decision.
post_single_to_backend_answer(i, outcome, status) ==
    /\ i \in DOMAIN one
    /\ one[i].st = "posted"
    /\ attempt_ended(i, one[i].attempt, post_attempt(i, outcome, status))
    /\ UNCHANGED <<pc, objs, chunk_size, group, results, raised, verified,
                   post_log, force, resolved>>
    /\ UNCHANGED sessionVars

\* The body of `for f in as_completed(tasks)`: await the next completed
\* task; an exception leaves _submit_payloads, a result extends `results`;
\* after the last task of the group the next group is scheduled, and after
\* the last group `results` is returned.
drain ==
    /\ pc = "draining"
    /\ done_q # <<>>
    /\ LET t == Head(done_q) IN
        /\ done_q' = Tail(done_q)
        /\ IF tasks[t].st = "failed"
           THEN /\ pc' = "raised"
                /\ raised' = tasks[t].exc
                /\ tasks' = [tasks EXCEPT ![t].awaited = TRUE]
                /\ UNCHANGED <<results, group>>
           ELSE /\ results' = results \o tasks[t].result
                /\ UNCHANGED raised
                /\ LET ts == [tasks EXCEPT ![t].awaited = TRUE] IN
                    IF \E u \in DOMAIN ts : ts[u].group = group /\ ~ts[u].awaited
                    THEN /\ tasks' = ts
                         /\ UNCHANGED <<pc, group>>
                    ELSE IF \E u \in DOMAIN ts : ts[u].group = group + 1
                    THEN /\ tasks' = as_completed(ts, group + 1)
                         /\ group' = group + 1
                         /\ UNCHANGED pc
                    ELSE /\ tasks' = ts
                         /\ pc' = "returned"
                         /\ UNCHANGED group
    /\ UNCHANGED <<objs, chunk_size, one, post_log, verified,
                   force, resolved>>
    /\ UNCHANGED sessionVars

\* --------------------------------------------------------------- inputs
\* All sequences over S of length at most n.
RECURSIVE SeqsUpTo(_, _)
SeqsUpTo(S, n) ==
    IF n = 0 THEN {<<>>}
    ELSE LET shorter == SeqsUpTo(S, n - 1)
         IN shorter \cup {Append(s, x) : s \in {q \in shorter : Len(q) = n - 1},
                                         x \in S}

\* Failed attempts of _post_single_to_backend so far, over all objects.
RECURSIVE FailedAttempts(_)
FailedAttempts(i) ==
    IF i = 0 THEN 0
    ELSE FailedAttempts(i - 1) + one[i].attempt
         - (IF one[i].st \in {"done", "posted"} THEN 1 ELSE 0)

\* The backend lets at most MaxFaults POSTs fail in one behaviour.
FewFaults(outcome) ==
    outcome # "ok" => FailedAttempts(Len(one)) < MaxFaults

\* ------------------------------- ModelClient of raclients.modelclient.mo
\* create_path_map
create_path_map ==
    [t \in {"Address", "Association", "Employee", "Engagement",
            "EngagementAssociation", "FacetClass", "ITUser", "KLE", "Leave",
            "Manager", "OrganisationUnit", "Role"} |->
        IF t = "Employee" THEN "/service/e/create"
        ELSE IF t = "FacetClass" THEN "/service/f/{facet_uuid}/"
        ELSE IF t = "OrganisationUnit" THEN "/service/ou/create"
        ELSE "/service/details/create"]

\* edit_path_map
edit_path_map ==
    [t \in {"Address", "Association", "Employee", "Engagement",
            "FacetClass", "ITUser", "KLE", "Leave", "Manager",
            "OrganisationUnit", "Role"} |->
        IF t = "FacetClass" THEN "/service/f/{facet_uuid}/"
        ELSE "/service/details/edit"]

\* The objects handed to get_object_url: every type of the two maps and
\* MOBase itself, which neither map has; facet_uuid is the field that the
\* FacetClass template names.
ResolverTypes == DOMAIN create_path_map \cup {"MOBase"}
FacetUuids == {"facet-a", "facet-b", "facet-c"}
ResolverObjs == [type : ResolverTypes, facet_uuid : FacetUuids]

\* path.format_map(obj.dict()): the placeholder gives way to the field.
format_map(path, obj) ==
    IF path = "/service/f/{facet_uuid}/"
    THEN <<"/service/f/", obj.facet_uuid, "/">>
    ELSE <<path>>

\* Faulty variant: the edit flag is ignored, the create map always used.
get_object_url_create_only(obj, edit, f) ==
    IF obj.type \notin DOMAIN create_path_map
    THEN [ok |-> FALSE, exc |-> [kind |-> "KeyError", message |-> obj.type]]
    ELSE [ok |-> TRUE,
          url |-> [path |-> format_map(create_path_map[obj.type], obj),
                   query |-> <<"force", IF f THEN 1 ELSE 0>>]]

\* get_object_url(obj, edit) of a client whose force flag is f: the URL
\* f"{path}?force={int(self.force)}", or the KeyError of the lookup.
get_object_url(obj, edit, f) ==
    LET path_map == IF edit THEN edit_path_map ELSE create_path_map IN
    IF obj.type \notin DOMAIN path_map
    THEN [ok |-> FALSE, exc |-> [kind |-> "KeyError", message |-> obj.type]]
    ELSE [ok |-> TRUE,
          url |-> [path |-> format_map(path_map[obj.type], obj),
                   query |-> <<"force", IF f THEN 1 ELSE 0>>]]

\* A call of get_object_url(obj, edit=edit).
call_get_object_url(obj, edit) ==
    /\ resolved' = [obj |-> obj, edit |-> edit,
                    result |-> get_object_url(obj, edit, force)]
    /\ UNCHANGED <<verified, force>>
    /\ UNCHANGED sessionVars
    /\ UNCHANGED batchVars

\* ------------------------------------------------------- specifications
\* SpecResolver: a client built with either force flag resolves the URL of
\* any object, for create and for edit.
InitResolver == \E f \in BOOLEAN : InitClient(1, f)

NextResolver ==
    \E obj \in ResolverObjs, edit \in BOOLEAN : call_get_object_url(obj, edit)

SpecResolver == InitResolver /\ [][NextResolver]_vars

\* SpecSession: any number of callers enter and leave context() in any
\* order, and _verify_session is called at any moment.
NextSession ==
    \/ \E c \in Scopes : context_enter(c)
    \/ \E c \in Scopes, e \in Endpoints : check_endpoint(c, e)
    \/ \E c \in Scopes, e \in Endpoints, marker \in BOOLEAN :
            check_endpoint_answer(c, e, marker)
    \/ \E c \in Scopes : context_yield(c)
    \/ \E c \in Scopes, how \in {"normal", "exception"} : context_exit(c, how)
    \/ call_verify_session

SpecSession == Init /\ [][NextSession]_vars

\* SpecConcurrent: one caller opens and leaves the context while another
\* task uploads one object, or an empty list, whenever it likes.
NextConcurrent ==
    \/ context_enter(1)
    \/ \E e \in Endpoints : check_endpoint(1, e)
    \/ \E e \in Endpoints, marker \in BOOLEAN :
            check_endpoint_answer(1, e, marker)
    \/ context_yield(1)
    \/ \E how \in {"normal", "exception"} : context_exit(1, how)
    \/ \E input \in SeqsUpTo({"Employee", "OrganisationUnit"}, 1) :
            submit_payloads(input)
    \/ \E t \in DOMAIN tasks : submit_chunk(t)
    \/ \E t \in DOMAIN tasks : post_to_backend(t)
    \/ \E i \in DOMAIN one : post_single_to_backend(i)
    \/ \E i \in DOMAIN one, outcome \in {"ok", "neterr"} :
            FewFaults(outcome) /\ post_single_to_backend_answer(i, outcome, 0)
    \/ drain

SpecConcurrent == Init /\ [][NextConcurrent]_vars

\* SpecSubmitOne: one caller opens the context and uploads a single object
\* inside it; the backend answers every POST as it likes.
NextSubmitOne ==
    \/ context_enter(1)
    \/ \E e \in Endpoints : check_endpoint(1, e)
    \/ \E e \in Endpoints, marker \in BOOLEAN :
            check_endpoint_answer(1, e, marker)
    \/ context_yield(1)
    \/ /\ scopes[1].pc = "body"
       /\ \E t \in {"Employee", "OrganisationUnit"} : submit_payloads(<<t>>)
    \/ \E t \in DOMAIN tasks : submit_chunk(t)
    \/ \E t \in DOMAIN tasks : post_to_backend(t)
    \/ \E i \in DOMAIN one : post_single_to_backend(i)
    \/ \E i \in DOMAIN one, outcome \in Outcomes, status \in ErrorStatuses :
            post_single_to_backend_answer(i, outcome, status)
    \/ drain
    \/ /\ pc \in {"returned", "raised"}
       /\ \E how \in {"normal", "exception"} : context_exit(1, how)

SpecSubmitOne == Init /\ [][NextSubmitOne]_vars

\* SpecBatch: the documented use with a backend that is up. One caller
\* opens the context, the health check finds the marker at once, the
\* caller uploads a list of objects of mapped classes inside the scope and
\* leaves once the upload returned or raised; a few POSTs fail on the
\* network and are retried.
NextBatch ==
    \/ context_enter(1)
    \/ \E e \in Endpoints : check_endpoint(1, e)
    \/ \E e \in Endpoints : check_endpoint_answer(1, e, TRUE)
    \/ context_yield(1)
    \/ /\ scopes[1].pc = "body"
       /\ \E input \in SeqsUpTo({"Employee", "OrganisationUnit"}, MaxObjs) :
            submit_payloads(input)
    \/ \E t \in DOMAIN tasks : submit_chunk(t)
    \/ \E t \in DOMAIN tasks : post_to_backend(t)
    \/ \E i \in DOMAIN one : post_single_to_backend(i)
    \/ \E i \in DOMAIN one, outcome \in {"ok", "neterr"} :
            FewFaults(outcome) /\ post_single_to_backend_answer(i, outcome, 0)
    \/ drain
    \/ /\ pc \in {"returned", "raised"}
       /\ \E how \in {"normal", "exception"} : context_exit(1, how)

SpecBatch == Init /\ [][NextBatch]_vars

\* SpecClasses: the documented use with one or two objects of any classes,
\* among them classes that share their __name__.
NextClasses ==
    \/ context_enter(1)
    \/ \E e \in Endpoints : check_endpoint(1, e)
    \/ \E e \in Endpoints, marker \in BOOLEAN :
            check_endpoint_answer(1, e, marker)
    \/ context_yield(1)
    \/ /\ scopes[1].pc = "body"
       /\ \E input \in SeqsUpTo(ObjTypes, 2) : submit_payloads(input)
    \/ \E t \in DOMAIN tasks : submit_chunk(t)
    \/ \E t \in DOMAIN tasks : post_to_backend(t)
    \/ \E i \in DOMAIN one : post_single_to_backend(i)
    \/ \E i \in DOMAIN one, outcome \in {"ok", "neterr"} :
            FewFaults(outcome) /\ post_single_to_backend_answer(i, outcome, 0)
    \/ drain
    \/ /\ pc \in {"returned", "raised"}
       /\ \E how \in {"normal", "exception"} : context_exit(1, how)

SpecClasses == Init /\ [][NextClasses]_vars

\* SpecFail: the documented use with one or two objects and a backend that
\* lets any number of POSTs fail, so that a submission can use up its
\* attempts while its sibling is still under way.
NextFail ==
    \/ context_enter(1)
    \/ \E e \in Endpoints : check_endpoint(1, e)
    \/ \E e \in Endpoints, marker \in BOOLEAN :
            check_endpoint_answer(1, e, marker)
    \/ context_yield(1)
    \/ /\ scopes[1].pc = "body"
       /\ \E input \in SeqsUpTo({"Employee", "OrganisationUnit"}, 2) :
            submit_payloads(input)
    \/ \E t \in DOMAIN tasks : submit_chunk(t)
    \/ \E t \in DOMAIN tasks : post_to_backend(t)
    \/ \E i \in DOMAIN one : post_single_to_backend(i)
    \/ \E i \in DOMAIN one, outcome \in {"ok", "neterr"} :
            post_single_to_backend_answer(i, outcome, 0)
    \/ drain
    \/ /\ pc \in {"returned", "raised"}
       /\ \E how \in {"normal", "exception"} : context_exit(1, how)

SpecFail == Init /\ [][NextFail]_vars

\* =================================================================== claims
OpenSessions == {sid \in DOMAIN sessions : sessions[sid] = "open"}

\* C1: whenever a scope opened by context() is left -- the body ended
\* normally, the body raised, or the health probe failed during open --
\* the scope's session is closed and the shared handle is None right after.
C1_ExitClosesSessionAndClearsHandle ==
    [][\A c \in Scopes :
          (scopes[c].pc # "exited" /\ scopes'[c].pc = "exited")
              => /\ sessions'[scopes'[c].sid] = "closed"
                 /\ session' = None]_vars

\* C1 witness: one scope was left because its probe failed, another because
\* its body raised, and the handle is None.
C1_Witness ==
    /\ \E c \in Scopes : scopes[c].how = "probe_failed"
    /\ \E c \in Scopes : scopes[c].how = "exception"
    /\ session = None

\* C2 (as claimed): every POST is sent on a session whose health probe had
\* already succeeded on every endpoint.
C2_PostOnlyAfterProbe == \A p \in post_log : p.validated

\* C3 (as claimed): at most one session is open at a time per client.
C3_AtMostOneOpenSession == Cardinality(OpenSessions) <= 1

\* C4: a call of _verify_session returns the current handle when there is
\* one and raises when the handle is None; either way the handle and the
\* sessions are what they were before the call.
C4_VerifySessionReturnsOrFails ==
    [][call_verify_session =>
          /\ session # None =>
                verified'.ok /\ verified'.value = session
          /\ session = None =>
                ~verified'.ok /\ verified'.exc = NotInitialized
          /\ session' = session
          /\ sessions' = sessions]_vars

\* C4 witness: the last call failed for want of a session although a session
\* had been opened (and closed) before.
C4_Witness ==
    /\ verified # NoValue
    /\ ~verified.ok
    /\ verified.exc = NotInitialized
    /\ session = None
    /\ sessions # <<>>

HttpAnswers == {"http_desc", "http_plain"}

\* C5 (as claimed): when the POST that ended _post_single_to_backend was
\* answered with an HTTP error status, the exception it raises is that
\* ClientResponseError: its message is the body's description when the body
\* has one, and it carries the status code when the body has none.
C5_HttpErrorIsRaisedAsIs ==
    \A i \in DOMAIN one :
        (one[i].st = "failed" /\ one[i].last \in HttpAnswers)
            => /\ one[i].out.kind = "ClientResponseError"
               /\ one[i].out.status \in ErrorStatuses
               /\ one[i].last = "http_desc" => one[i].out.message = Description

\* C6 (as claimed): an HTTP error answer is not retried: once a POST was
\* answered with a 4xx/5xx, _post_single_to_backend has failed, with that
\* single POST and without having slept.
C6_HttpErrorNotRetried ==
    \A i \in DOMAIN one :
        (one[i].last \in HttpAnswers /\ one[i].neterrs = 0)
            => /\ one[i].st = "failed"
               /\ one[i].posts = 1
               /\ one[i].waits = <<>>

\* C7: _post_single_to_backend sends one POST per attempt and never more
\* than 7; when the first k < 7 POSTs fail on the network and POST k+1
\* succeeds it returns that response after exactly k+1 POSTs; when it
\* fails it has sent exactly 7 POSTs.
C7_RetriesUpToSevenPosts ==
    \A i \in DOMAIN one :
        /\ one[i].posts = one[i].attempt
        /\ one[i].posts <= StopAfterAttempt
        /\ one[i].st = "ready" => one[i].attempt < StopAfterAttempt
        /\ (one[i].st = "done" /\ one[i].neterrs = one[i].attempt - 1)
              => /\ one[i].neterrs < StopAfterAttempt
                 /\ one[i].posts = one[i].neterrs + 1
                 /\ one[i].out = Response(i)
        /\ one[i].st = "failed" => one[i].posts = StopAfterAttempt

\* C7 witness: six network errors, then the seventh POST succeeded.
C7_Witness ==
    \E i \in DOMAIN one :
        /\ one[i].st = "done"
        /\ one[i].neterrs = StopAfterAttempt - 1
        /\ one[i].posts = StopAfterAttempt

CeilDiv(m, n) == (m + n - 1) \div n

\* The number of input objects of type T, and the _submit_chunk calls and
\* the groups made for it.
CountOfType(T) == Cardinality({i \in DOMAIN objs : type_name(objs[i]) = T})
ChunksOfType(T) == {t \in DOMAIN tasks : tasks[t].type_name = T}
GroupsOfType(T) == {tasks[t].group : t \in ChunksOfType(T)}
Homogeneous == \A i \in DOMAIN objs : objs[i] = objs[1]

\* C8: when _submit_payloads returns for a non-empty input it returns one
\* result per input object, each object's own; and when no attempt failed,
\* every object was POSTed exactly once.
C8_OneResultPerObject ==
    (pc = "returned" /\ objs # <<>>)
        => /\ Len(results) = Len(objs)
           /\ {results[k].obj : k \in DOMAIN results} = DOMAIN objs
           /\ FailedAttempts(Len(one)) = 0
                => \A i \in DOMAIN one : one[i].posts = 1

\* C8 witness: three objects of two types, not adjacent by type, uploaded in
\* chunks of two without a single failed attempt.
C8_Witness ==
    /\ pc = "returned"
    /\ objs = <<"Employee", "OrganisationUnit", "Employee">>
    /\ chunk_size = MaxChunkSize
    /\ FailedAttempts(Len(one)) = 0
    /\ Len(results) = MaxObjs

\* C9 (as claimed): whatever the order of the input, each type forms one
\* group, and a type with M objects gets ceil(M / chunk_size) chunk
\* submissions.
C9_OneGroupPerType ==
    pc # "idle"
        => \A T \in ObjTypes :
              /\ Cardinality(GroupsOfType(T)) <= 1
              /\ Cardinality(ChunksOfType(T))
                    = CeilDiv(CountOfType(T), chunk_size)

\* C10: for an input of M >= 1 objects of one type and chunk size N,
\* _submit_payloads makes exactly ceil(M / N) chunk submissions, and all of
\* them are submitted.
C10_CeilChunksForOneType ==
    (pc # "idle" /\ objs # <<>> /\ Homogeneous)
        => /\ Len(tasks) = CeilDiv(Len(objs), chunk_size)
           /\ \A t \in DOMAIN tasks : tasks[t].st # "created"

\* C10 witness: three objects of one type in chunks of two: two
\* submissions, the second one shorter, both completed.
C10_Witness ==
    /\ pc = "returned"
    /\ Homogeneous
    /\ Len(objs) = MaxObjs
    /\ chunk_size = MaxChunkSize
    /\ Len(tasks) = CeilDiv(MaxObjs, MaxChunkSize)
    /\ \A t \in DOMAIN tasks : tasks[t].st = "done"

\* C11: _submit_payloads on an empty input returns [] at once, whether a
\* session is open or not: the call itself sends no GET and no POST, leaves
\* the session alone and makes no task, so nothing is ever sent for it.
C11_EmptyInputNoNetwork ==
    /\ []((pc # "idle" /\ objs = <<>>)
            => /\ pc = "returned"
               /\ results = <<>>
               /\ tasks = <<>>
               /\ one = <<>>
               /\ post_log = {})
    /\ [][(pc = "idle" /\ pc' # "idle" /\ objs' = <<>>)
            => /\ pc' = "returned"
               /\ results' = <<>>
               /\ gets' = gets
               /\ post_log' = post_log
               /\ session' = session
               /\ sessions' = sessions]_vars

\* C11 witness: the empty list was uploaded on a client that never had a
\* session.
C11_Witness ==
    /\ pc = "returned"
    /\ objs = <<>>
    /\ results = <<>>
    /\ session = None
    /\ sessions = <<>>

Unmapped(T) == T \notin DOMAIN mo_path_map

\* The class of a chunk: that of its first object, when all its objects
\* are of that very class.
SingleClass(t) ==
    \A k \in DOMAIN tasks[t].data :
        objs[tasks[t].data[k]] = objs[tasks[t].data[1]]
ChunkClass(t) == objs[tasks[t].data[1]]

\* C12: a chunk whose class has no entry in the path map fails with the
\* TypeError "unknown type" as soon as it is submitted, and no object of it
\* is ever POSTed; _submit_payloads raises that TypeError when it awaits the
\* chunk, and never returns a list for an input holding such a chunk.
C12_UnknownTypeFailsWithoutPost ==
    \A t \in DOMAIN tasks :
        (SingleClass(t) /\ Unmapped(ChunkClass(t)))
            => /\ tasks[t].st \in {"created", "scheduled", "failed"}
               /\ tasks[t].st = "failed"
                    => tasks[t].exc = UnknownType(ChunkClass(t))
               /\ \A i \in Range(tasks[t].data) :
                    /\ one[i].posts = 0
                    /\ one[i].st = "none"
                    /\ \A p \in post_log : p.obj # i
               /\ tasks[t].awaited
                    => /\ pc = "raised"
                       /\ raised = UnknownType(ChunkClass(t))
               /\ pc # "returned"

\* C12 witness: the Employee of the first group was uploaded, then the
\* chunk of the ITUser made the upload raise the TypeError, unposted.
C12_Witness ==
    /\ objs = <<"Employee", "ITUser">>
    /\ pc = "raised"
    /\ raised = UnknownType("ITUser")
    /\ one[1].posts >= 1
    /\ one[2].posts = 0

\* C13: once a submission has used up its attempts, its chunk returns no
\* list: the chunk task is still waiting in gather or has failed with that
\* RetryError, and failing is the only way it goes on; _submit_payloads
\* raises when it awaits the chunk and never returns; a list is returned
\* only when every object has its result in it.
C13_FailureFailsChunkAndBatch ==
    /\ [](/\ \A i \in DOMAIN one :
              one[i].st = "failed"
                  => LET t == task_of(i) IN
                     /\ tasks[t].st \in {"running", "failed"}
                     /\ tasks[t].st = "failed"
                          => tasks[t].exc.kind = "RetryError"
                     /\ tasks[t].result = <<>>
                     /\ tasks[t].awaited => pc = "raised"
                     /\ pc # "returned"
          /\ \A t \in DOMAIN tasks :
              (tasks[t].st = "failed" /\ tasks[t].awaited)
                  => pc = "raised" /\ raised = tasks[t].exc
          /\ pc = "returned"
              => /\ \A i \in DOMAIN one : one[i].st = "done"
                 /\ {results[k].obj : k \in DOMAIN results} = DOMAIN objs
                 /\ Len(results) = Len(objs))
    /\ [][\A t \in DOMAIN tasks :
            (/\ tasks[t].st = "running"
             /\ Failed(tasks, t, one) # {}
             /\ t \in DOMAIN tasks'
             /\ tasks'[t] # tasks[t])
                => /\ tasks'[t].st = "failed"
                   /\ tasks'[t].exc = one[FirstFailed(tasks, t, one)].out]_vars

\* C13 witness: of two objects one was uploaded and the other used up its
\* attempts: the upload raised the RetryError.
C13_Witness ==
    /\ Len(objs) = 2
    /\ pc = "raised"
    /\ raised.kind = "RetryError"
    /\ \E i \in DOMAIN one : one[i].st = "failed"
    /\ \E i \in DOMAIN one : one[i].st = "done"

\* The scope's probe has used up the attempts of an endpoint.
Exhausted(c) ==
    \E e \in Endpoints :
        e \notin scopes[c].online /\ scopes[c].tries[e] = Attempts

\* C14: an endpoint that first returns the marker on attempt k got exactly
\* k GETs, k <= attempts, and none later; the body of the scope runs only
\* when every endpoint returned the marker, and then the start of the body
\* is the only way on; once an endpoint has used up its attempts no
\* further GET is sent to it, the body never runs and the only way on is
\* the failure of the open, which closes the session.
C14_ProbeStopsAtMarkerOrExhaustion ==
    /\ [](\A c \in Scopes :
            LET sc == scopes[c] IN
            sc.pc # "idle"
                => /\ \A e \in Endpoints :
                        /\ gets[sc.sid][e] <= Attempts
                        /\ e \in sc.online
                              => /\ gets[sc.sid][e] = sc.tries[e] + 1
                                 /\ sc.tries[e] < Attempts
                        /\ e \notin sc.online
                              => gets[sc.sid][e] = sc.tries[e]
                                   + (IF e \in sc.waiting THEN 1 ELSE 0)
                   /\ (sc.pc = "body" \/ sc.how \in {"normal", "exception"})
                        => sc.online = Endpoints
                   /\ sc.online = Endpoints => sc.how # "probe_failed"
                   /\ sc.sid \in probed <=> sc.online = Endpoints
                   /\ sc.how = "probe_failed"
                        => /\ Exhausted(c)
                           /\ sc.pc = "exited"
                           /\ sessions[sc.sid] = "closed"
                   /\ Exhausted(c)
                        => /\ sc.pc \in {"probing", "exited"}
                           /\ sc.pc = "exited" => sc.how = "probe_failed")
    /\ [][\A c \in Scopes :
            /\ (Exhausted(c) /\ scopes'[c] # scopes[c])
                  => /\ scopes'[c].how = "probe_failed"
                     /\ gets' = gets
            /\ (/\ scopes[c].pc = "probing"
                /\ scopes[c].online = Endpoints
                /\ scopes'[c] # scopes[c])
                  => /\ scopes'[c].pc = "body"
                     /\ gets' = gets]_vars

\* C14 witness: one scope got the marker on the last attempt allowed and
\* has run its body; another used up its attempts and was left.
C14_Witness ==
    /\ \E c \in Scopes, e \in Endpoints :
          /\ scopes[c].how = "normal"
          /\ gets[scopes[c].sid][e] = Attempts
    /\ \E c \in Scopes : scopes[c].how = "probe_failed"

\* C15 (as claimed): _post_single_to_backend that finds no session fails at
\* once with the not-initialized error: one attempt, no backoff delay, no
\* POST.
C15_NoSessionFailsImmediately ==
    \A i \in DOMAIN one :
        (one[i].last = "nosession" /\ one[i].posts = 0)
            => /\ one[i].st = "failed"
               /\ one[i].attempt = 1
               /\ one[i].waits = <<>>
               /\ one[i].out = NotInitialized

\* C16: get_object_url looks the type up in create_path_map when edit is
\* false and in edit_path_map when edit is true; a type the chosen map lacks
\* raises KeyError, never a default route; every URL returned ends with
\* ?force=0 or ?force=1 according to the client's force flag.
C16_PathResolverUsesChosenMap ==
    resolved # NoValue
        => LET T == resolved.obj.type
               res == resolved.result
           IN
           /\ (~resolved.edit /\ T \in DOMAIN create_path_map)
                => /\ res.ok
                   /\ res.url.path = format_map(create_path_map[T], resolved.obj)
           /\ (resolved.edit /\ T \in DOMAIN edit_path_map)
                => /\ res.ok
                   /\ res.url.path = format_map(edit_path_map[T], resolved.obj)
           /\ (~resolved.edit /\ T \notin DOMAIN create_path_map)
                => ~res.ok /\ res.exc.kind = "KeyError"
           /\ (resolved.edit /\ T \notin DOMAIN edit_path_map)
                => ~res.ok /\ res.exc.kind = "KeyError"
           /\ res.ok => res.url.query = <<"force", IF force THEN 1 ELSE 0>>
           /\ (T = "Employee" /\ res.ok)
                => res.url.path = IF resolved.edit
                                  THEN <<"/service/details/edit">>
                                  ELSE <<"/service/e/create">>
           /\ (T = "EngagementAssociation") => (res.ok <=> ~resolved.edit)

\* C16 witness: an Employee was resolved for edit on a client with force
\* set: /service/details/edit?force=1.
C16_Witness ==
    /\ resolved # NoValue
    /\ resolved.obj.type = "Employee"
    /\ resolved.edit
    /\ force
    /\ resolved.result.ok
    /\ resolved.result.url = [path |-> <<"/service/details/edit">>,
                              query |-> <<"force", 1>>]

\* C17 (as claimed): the chunk submissions of all types are scheduled
\* before any of them is drained: while _submit_payloads drains, no chunk
\* is still an unscheduled coroutine.
C17_AllGroupsScheduledBeforeDrain ==
    pc = "draining" => \A t \in DOMAIN tasks : tasks[t].st # "created"

\* C18 (as claimed): every chunk made for _submit_chunk is non-empty, holds
\* objects of one runtime class, and has at most chunk_size objects; a
\* chunk shorter than chunk_size is the last chunk of its group.
C18_ChunksWellFormed ==
    \A t \in DOMAIN tasks :
        LET data == tasks[t].data IN
        /\ data # <<>>
        /\ \A k \in DOMAIN data : objs[data[k]] = objs[data[1]]
        /\ Len(data) <= chunk_size
        /\ Len(data) < chunk_size
              => \/ t = Len(tasks)
                 \/ tasks[t + 1].group # tasks[t].group

\* C19: the delays _post_single_to_backend sleeps between attempts: one per
\* failed attempt that is retried, at most six; the first is at least 1 and
\* each further one is twice the one before.
C19_BackoffDoubles ==
    \A i \in DOMAIN one :
        LET w == one[i].waits IN
        /\ Len(w) <= StopAfterAttempt - 1
        /\ Len(w) = IF one[i].st = "ready" THEN one[i].attempt
                    ELSE IF one[i].attempt = 0 THEN 0
                    ELSE one[i].attempt - 1
        /\ w # <<>> => w[1] >= 1
        /\ \A k \in 1..(Len(w) - 1) : w[k + 1] = 2 * w[k]

\* C19 witness: six delays were slept before the seventh attempt.
C19_Witness ==
    \E i \in DOMAIN one :
        /\ Len(one[i].waits) = StopAfterAttempt - 1
        /\ one[i].attempt = StopAfterAttempt

\* A step in which no submission sends a POST.
NoFurtherPost == \A i \in DOMAIN one : one[i].posts = one'[i].posts

\* C20 (as claimed): once _submit_payloads has returned or raised, no
\* submission of that call sends a POST any more.
C20_NoPostAfterReturnOrRaise ==
    [][(pc = "returned" \/ pc = "raised") => NoFurtherPost]_vars

\* C20 (amended): once _submit_payloads has returned, every submission of
\* the call has returned, and none makes another attempt or sends another
\* POST. (After it has raised, the siblings of the failed submission are
\* not cancelled and go on posting while a session is open.)
C20_NoPostAfterReturn ==
    /\ [](pc = "returned" => \A i \in DOMAIN one : one[i].st = "done")
    /\ [][pc = "returned" => (one' = one /\ post_log' = post_log)]_vars

\* C20 witness: two objects were uploaded, one of them after a failed
\* attempt, and the upload has returned.
C20_Witness ==
    /\ pc = "returned"
    /\ Len(objs) = 2
    /\ \E i \in DOMAIN one : one[i].posts > 1

\* C21 (as claimed): while a scope is in its body (probe succeeded, not yet
\* exited) the handle is present and _verify_session succeeds, whatever
\* other scopes of the same client do.
C21_HandlePresentWhileScopeOpen ==
    \A c \in Scopes :
        scopes[c].pc = "body"
            => session # None /\ verify_session(session).ok

\* C22: a chunk task that succeeded returns one response per object of its
\* chunk, the k-th being the response to the k-th object of the chunk, in
\* whatever order the POSTs of the chunk completed.
C22_ChunkResultsInChunkOrder ==
    \A t \in DOMAIN tasks :
        tasks[t].st = "done" =>
            /\ Len(tasks[t].result) = Len(tasks[t].data)
            /\ \A k \in DOMAIN tasks[t].data :
                  tasks[t].result[k] = Response(tasks[t].data[k])

\* C22 witness: a chunk of two succeeded although the POST for its second
\* object completed before the POST for its first.
C22_Witness ==
    \E t \in DOMAIN tasks :
        /\ tasks[t].st = "done"
        /\ Len(tasks[t].data) = 2
        /\ one[tasks[t].data[2]].rank < one[tasks[t].data[1]].rank

====
